---------------------------- MODULE Spec2Model ----------------------------
(***************************************************************************)
(* A model of the authz crate: the object model (object.rs), the           *)
(* permission catalog and the result algebra (permission.rs), the bearer   *)
(* interceptor (grpc_auth.rs) and the repository client (spicedb.rs) with  *)
(* its shared, write-locked client handle.                                 *)
(*                                                                         *)
(* Spec      the repository: concurrent check calls against a backend.     *)
(* FairSpec  Spec with the fairness of the async runtime and of a backend  *)
(*           that answers every call.                                      *)
(* PureSpec  the pure conversions applied to inputs drawn from small sets. *)
(* LifeSpec  the repository from SpiceDbRepository::new to its drop.       *)
(* HistSpec  Spec with a history variable: the backend's decision at the   *)
(*           moment each call was made.                                    *)
(* ServiceSpec  the crates around the repository: the server's bearer      *)
(*           middleware and arguments, the telemetry guard, and the raw    *)
(*           views of a Permissionship.                                    *)
(***************************************************************************)
EXTENDS Naturals, Sequences, FiniteSets, TLC

VARIABLES
    ctor,       \* SpiceDbRepository::new: its position, config and result
    connects,   \* connection attempts made so far (endpoint.connect())
    token,      \* AuthInterceptor.token of the repository's client
    policy,     \* the backend's relationships: tuple -> outcome
    lock,       \* the RwLock around the client: [writer, readers]
    queue,      \* tasks waiting for the RwLock, in arrival order
    pc,         \* each task's position in a check call
    call,       \* each task's arguments
    req,        \* each task's CheckPermissionRequest
    attempts,   \* each task's client.check_permission(..) calls in this call
    wire,       \* each task's outbound request as sent (with metadata)
    resp,       \* each task's result of client.check_permission(..)
    ret,        \* each task's returned value
    atCall,     \* history: the backend's decision when the task called
    objIn,      \* PureSpec: a SpiceDbObject ...
    objOut,     \*           ... and what id/object_name/into make of it
    resIn,      \* PureSpec: a Result<Permissionship, AuthorizationError> ...
    resOut,     \*           ... and the views of its AuthorizationResult
    permIn,     \* PureSpec: a Permissions variant ...
    permOut,    \*           ... and its Display string
    icIn,       \* PureSpec: an interceptor token and a request's metadata ...
    icOut,      \*           ... and what AuthInterceptor::call returns
    psIn,       \* ServiceSpec: a Permissionship ...
    psOut,      \*              ... and its views, raw and wrapped
    hdrIn,      \* ServiceSpec: an Authorization header value ...
    hdrOut,     \*              ... and what extract_token_from_bearer returns
    argsIn,     \* ServiceSpec: a command line and an environment ...
    argsOut,    \*              ... and AuthArgs parsed from them, and default()
    mw,         \* ServiceSpec: auth_middleware serving a request
    otel        \* ServiceSpec: OtelGuard::shutdown

newVars == <<ctor, connects>>
repoVars == <<token, policy, lock, queue, pc, call, req, attempts, wire, resp,
              ret>>
histVars == <<atCall>>
pureVars == <<objIn, objOut, resIn, resOut, permIn, permOut, icIn, icOut>>
serviceVars == <<psIn, psOut, hdrIn, hdrOut, argsIn, argsOut, mw, otel>>
vars == <<ctor, connects, token, policy, lock, queue, pc, call, req, attempts,
          wire, resp, ret, atCall,
          objIn, objOut, resIn, resOut, permIn, permOut, icIn, icOut,
          psIn, psOut, hdrIn, hdrOut, argsIn, argsOut, mw, otel>>

(***************************************************************************)
(* Bounds.                                                                 *)
(***************************************************************************)
NumTasks == 2

Tasks == 1..NumTasks
NoTask == 0

(***************************************************************************)
(* Result<T, AuthorizationError> and AuthorizationError (lib.rs).          *)
(***************************************************************************)
Ok(v) == [ok |-> TRUE, val |-> v, err |-> "", msg |-> ""]

Err(e) == [ok |-> FALSE, val |-> "", err |-> e.kind, msg |-> e.msg]

Unauthorized == [kind |-> "Unauthorized", msg |-> ""]

ConnectionError(m) == [kind |-> "ConnectionError", msg |-> m]

Unit == "()"

(***************************************************************************)
(* Object model (object.rs).                                               *)
(***************************************************************************)
ObjectIds == {"c1", "s1", "u1"}

Variants == {"Server", "Channel", "User", "PermissionOverride"}

SpiceDbObject == [tag : Variants, id : ObjectIds]

Server(i) == [tag |-> "Server", id |-> i]

Channel(i) == [tag |-> "Channel", id |-> i]

User(i) == [tag |-> "User", id |-> i]

PermissionOverride(i) == [tag |-> "PermissionOverride", id |-> i]

id(self) == self.id

object_name_of_server(self) == "server"

object_name(self) ==
    CASE self.tag = "Server" -> "server"
      [] self.tag = "Channel" -> "channel"
      [] self.tag = "User" -> "user"
      [] self.tag = "PermissionOverride" -> "permission_override"

ObjectReference(t, i) == [object_type |-> t, object_id |-> i]

\* impl Into<ObjectReference> for SpiceDbObject: object_type is filled from
\* self.id() and object_id from self.object_name(), as written in the source.
into_ObjectReference(self) ==
    [object_type |-> id(self), object_id |-> object_name(self)]

(***************************************************************************)
(* Permission catalog (permission.rs).                                     *)
(***************************************************************************)
Permissions ==
    {"Administrator", "ManageServer", "ManageRoles", "CreateInvitation",
     "ManageChannels", "ManageWebhooks", "ViewChannels", "SendMessages",
     "ManageNicknames", "ChangeNickname", "ManageMessages", "AttachFiles"}

to_string_merging_manage(p) ==
    CASE p = "Administrator" -> "admin"
      [] p \in {"ManageServer", "ManageRoles", "ManageChannels",
                "ManageWebhooks", "ManageNicknames", "ManageMessages"}
             -> "manage"
      [] p = "CreateInvitation" -> "create_invitation"
      [] p = "ViewChannels" -> "view_channel"
      [] p = "SendMessages" -> "send_message"
      [] p = "ChangeNickname" -> "change_nickname"
      [] p = "AttachFiles" -> "attach_files"

to_string(p) ==
    CASE p = "Administrator" -> "admin"
      [] p = "ManageServer" -> "manage"
      [] p = "ManageRoles" -> "manage_role"
      [] p = "CreateInvitation" -> "create_invitation"
      [] p = "ManageChannels" -> "manage_channels"
      [] p = "ManageWebhooks" -> "manage_webhooks"
      [] p = "ViewChannels" -> "view_channel"
      [] p = "SendMessages" -> "send_message"
      [] p = "ManageNicknames" -> "manage_nicknames"
      [] p = "ChangeNickname" -> "change_nickname"
      [] p = "ManageMessages" -> "manage_message"
      [] p = "AttachFiles" -> "attach_files"

(***************************************************************************)
(* Result algebra (permission.rs).                                         *)
(***************************************************************************)
\* check_permission_response::Permissionship; the two matches of
\* impl Permissionship end in a wildcard arm, which Unspecified takes too.
Permissionship ==
    {"HasPermission", "NoPermission", "ConditionalPermission", "Unspecified"}

Permissionship_result(self) ==
    IF self = "HasPermission" THEN Ok(Unit) ELSE Err(Unauthorized)

Permissionship_has_permissions_unless_denied(self) ==
    self # "NoPermission"

Permissionship_has_permissions(self) ==
    IF self = "HasPermission" THEN TRUE ELSE FALSE

\* struct AuthorizationResult(Result<Permissionship, AuthorizationError>)
AuthorizationResult_from(value) == [inner |-> value]

has_permissions_granting_conditional(self) ==
    IF self.inner.ok
    THEN self.inner.val \in {"HasPermission", "ConditionalPermission"}
    ELSE FALSE

has_permissions(self) ==
    IF self.inner.ok
    THEN Permissionship_has_permissions(self.inner.val)
    ELSE FALSE

result_keeping_error(self) ==
    IF ~self.inner.ok
    THEN [ok |-> FALSE, val |-> "", err |-> self.inner.err,
          msg |-> self.inner.msg]
    ELSE IF Permissionship_has_permissions(self.inner.val)
         THEN Ok(Unit)
         ELSE Err(Unauthorized)

result(self) ==
    IF ~self.inner.ok
    THEN Err(Unauthorized)
    ELSE IF Permissionship_has_permissions(self.inner.val)
         THEN Ok(Unit)
         ELSE Err(Unauthorized)

(***************************************************************************)
(* Bearer interceptor (grpc_auth.rs).                                      *)
(***************************************************************************)
Tokens == {"", "abc", "a\nb"}

\* Characters a metadata value cannot carry.
ControlChars == {"\n", "\r"}

ValidMetadataValue_unchecked(s) == TRUE

ValidMetadataValue(s) ==
    \A i \in 1..Len(s) : SubSeq(s, i, i) \notin ControlChars

NoMetadata == {}

insert(metadata, key, value) ==
    {e \in metadata : e[1] # key} \cup {<<key, value>>}

StatusOk(v) == [ok |-> TRUE, val |-> v, code |-> "Ok"]

Status(code) == [ok |-> FALSE, val |-> "", code |-> code]

AuthInterceptor_call_raw_token(self_token, metadata) ==
    IF self_token # ""
    THEN IF ValidMetadataValue(self_token)
         THEN StatusOk(insert(metadata, "authorization", self_token))
         ELSE Status("Internal")
    ELSE StatusOk(metadata)

\* AuthInterceptor::call on a request with the given metadata.
AuthInterceptor_call(self_token, metadata) ==
    IF self_token # ""
    THEN LET bearer == "Bearer " \o self_token
         IN  IF ValidMetadataValue(bearer)
             THEN StatusOk(insert(metadata, "authorization", bearer))
             ELSE Status("Internal")
    ELSE StatusOk(metadata)

(***************************************************************************)
(* The RwLock around the client handle (spicedb.rs, tokio::sync::RwLock).  *)
(***************************************************************************)
Unlocked == [writer |-> NoTask, readers |-> {}]

Available(l, mode) ==
    IF mode = "write"
    THEN l.writer = NoTask /\ l.readers = {}
    ELSE l.writer = NoTask

Locked(l, t, mode) ==
    IF mode = "write"
    THEN [l EXCEPT !.writer = t]
    ELSE [l EXCEPT !.readers = @ \cup {t}]

Dropped(l, t) ==
    [writer |-> IF l.writer = t THEN NoTask ELSE l.writer,
     readers |-> l.readers \ {t}]

Holds(l, t) == l.writer = t \/ t \in l.readers

permissions_read == "read"

\* SpiceDbRepository::permissions: self.permissions.write().await
permissions == "write"

(***************************************************************************)
(* The backend: a relationship store deciding by                           *)
(* (resource type, resource id, permission, subject type, subject id).     *)
(***************************************************************************)
Outcomes == {"HasPermission", "NoPermission", "ConditionalPermission"}

ViewC1 == <<"channel", "c1", "view_channel", "user", "u1">>

BackendTuples == {ViewC1}

Asked(request) ==
    <<request.resource.object_type, request.resource.object_id,
      request.permission,
      request.subject.object.object_type, request.subject.object.object_id>>

Decide_at_construction(pol, request) == "NoPermission"

Decide(pol, request) ==
    IF Asked(request) \in DOMAIN pol THEN pol[Asked(request)]
    ELSE "NoPermission"

FailureCodes == {"Unavailable", "FailedPrecondition"}

(***************************************************************************)
(* Repository client (spicedb.rs).                                         *)
(***************************************************************************)
\* A value passed as `impl Into<ObjectReference>`.
AsObject(o) == [ty |-> "SpiceDbObject", v |-> o]

AsReference(r) == [ty |-> "ObjectReference", v |-> r]

Into(x) == IF x.ty = "SpiceDbObject" THEN into_ObjectReference(x.v) ELSE x.v

\* check_permissions_raw, lines 359-370: the request it builds.
CheckPermissionRequest(resource, permission, subject) ==
    [resource |-> Into(resource),
     permission |-> permission,
     subject |-> [object |-> Into(subject), optional_relation |-> ""],
     consistency |-> "None"]

check_permissions_args_swapped(resource, permission, subject) ==
    <<AsObject(subject), to_string(permission), AsObject(resource)>>

\* check_permissions, lines 251-254: what it hands to check_permissions_raw.
check_permissions_args(resource, permission, subject) ==
    <<AsObject(resource), to_string(permission), AsObject(subject)>>

check_permissions_raw_collapsing(response) ==
    IF ~response.ok THEN Err(Unauthorized)
    ELSE IF response.val = "HasPermission" THEN Ok("HasPermission")
         ELSE Ok("NoPermission")

check_permissions_raw_leaking(response) ==
    IF ~response.ok THEN Err(ConnectionError(response.code))
    ELSE Ok(response.val)

\* check_permissions_raw, lines 372-380: map_err, `?`, permissionship().
check_permissions_raw_result(response) ==
    IF ~response.ok THEN Err(Unauthorized) ELSE Ok(response.val)

guard_after_call_kept_on_error(l, t, response) ==
    IF response.ok THEN Dropped(l, t) ELSE l

\* The write guard is a temporary of the `let check_response` statement: it
\* is dropped at the end of the statement, also when `?` returns early.
guard_after_call(l, t, response) == Dropped(l, t)

guard_during_call_dropped(l, t) == Dropped(l, t)

\* The guard returned by permissions() lives while check_permission runs.
guard_during_call(l, t) == l

call_resolved_or_timed_out(p) == p \in {"inflight", "answered"}

\* check_permission(check_request).await, lines 374-376: the await resolves
\* with the call's result, and with nothing else (no timeout, no select).
call_resolved(p) == p = "answered"

after_call_retrying(response) == IF response.ok THEN "done" ELSE "locked"

\* Lines 377-380: `?` returns the error, line 380 the outcome; no loop.
after_call(response) == "done"

handle_after_call_reconnecting(h, response) ==
    IF response.ok THEN h ELSE h + 1

\* Lines 372-380 only use the client behind the guard: the channel made by
\* new stays the repository's channel whatever the call's result.
handle_after_call(h, response) == h

TypedInputs ==
    {<<Channel("c1"), "ViewChannels", User("u1")>>}

RawInputs ==
    {<<AsReference(ObjectReference("channel", "c1")), "view_channel",
       AsReference(ObjectReference("user", "u1"))>>}

NoCall == [kind |-> "none", resource |-> "", permission |-> "", subject |-> ""]

NoRequest == CheckPermissionRequest(AsReference(ObjectReference("", "")), "",
                                    AsReference(ObjectReference("", "")))

NoWire == [message |-> NoRequest, metadata |-> NoMetadata]

NoResponse == Status("None")

NoReturn == [ok |-> FALSE, val |-> "", err |-> "None", msg |-> ""]

(***************************************************************************)
(* Construction (spicedb.rs: new, create_channel; config.rs).              *)
(***************************************************************************)
None == [some |-> FALSE, v |-> ""]

Some(x) == [some |-> TRUE, v |-> x]

unwrap_or_default_dropping(o) == ""

\* config.token.unwrap_or_default(), line 102.
unwrap_or_default(o) == IF o.some THEN o.v ELSE ""

Endpoints ==
    {"localhost:50051", "http://localhost:50051", "https://x:443",
     "HTTPS://x:443", "grpc://x:443", "bad host:1"}

TokenOptions == {None} \cup {Some(t) : t \in Tokens}

SpiceDbConfig == [endpoint : Endpoints, token : TokenOptions]

starts_with(s, prefix) ==
    Len(s) >= Len(prefix) /\ SubSeq(s, 1, Len(prefix)) = prefix

endpoint_url_prefixing_https(endpoint) ==
    IF starts_with(endpoint, "http://") THEN endpoint
    ELSE "http://" \o endpoint

\* create_channel, lines 116-121: the URL the channel is built from.
endpoint_url(endpoint) ==
    IF starts_with(endpoint, "http://") \/ starts_with(endpoint, "https://")
    THEN endpoint
    ELSE "http://" \o endpoint

\* The result of a library call that fails with an error of the given text.
LibOk(v) == [ok |-> TRUE, val |-> v, text |-> ""]

LibErr(text) == [ok |-> FALSE, val |-> "", text |-> text]

\* Characters no URI can carry.
UriInvalidChars == {" "}

from_shared_unchecked(url) == LibOk(url)

\* Channel::from_shared(endpoint_url), line 123: the URL is parsed, nothing
\* is sent.
from_shared(url) ==
    IF \E i \in 1..Len(url) : SubSeq(url, i, i) \in UriInvalidChars
    THEN LibErr("invalid uri character")
    ELSE LibOk(url)

\* The text of the error endpoint.connect() fails with.
ConnectErrors == {"transport error"}

\* map_err(|e| AuthorizationError::ConnectionError { msg: e.to_string() }),
\* lines 124 and 129.
connection_error(e) == ConnectionError(e.text)

after_connect_error_retrying == "parsed"

\* The `?` of line 129: new returns on the first failed connection.
after_connect_error == "failed"

\* new(config) before its first step.
Start(config) ==
    [pc |-> "start", endpoint |-> config.endpoint, token |-> config.token,
     url |-> "", cause |-> "", result |-> NoReturn]

\* new returned Ok(Self { permissions }): the endpoint lives on in the channel
\* only.
Built(tokenOption) ==
    [pc |-> "connected", endpoint |-> "", token |-> tokenOption,
     url |-> "", cause |-> "", result |-> Ok("SpiceDbRepository")]

\* No check call has been made.
InitCalls ==
    /\ policy = [k \in BackendTuples |-> "NoPermission"]
    /\ lock = Unlocked
    /\ queue = <<>>
    /\ pc = [t \in Tasks |-> "idle"]
    /\ call = [t \in Tasks |-> NoCall]
    /\ req = [t \in Tasks |-> NoRequest]
    /\ attempts = [t \in Tasks |-> 0]
    /\ wire = [t \in Tasks |-> NoWire]
    /\ resp = [t \in Tasks |-> NoResponse]
    /\ ret = [t \in Tasks |-> NoReturn]

\* The repository as new returns it.
InitRepo ==
    /\ token \in Tokens
    /\ ctor = Built(Some(token))
    /\ connects = 1
    /\ InitCalls

\* Before new(config) runs.
InitNew ==
    /\ \E config \in SpiceDbConfig : ctor = Start(config)
    /\ connects = 0
    /\ token = ""
    /\ InitCalls

InitHist == atCall = [t \in Tasks |-> ""]

(***************************************************************************)
(* The server crate (http/mod.rs, args/auth.rs) and the telemetry guard    *)
(* (telemetry.rs).                                                         *)
(***************************************************************************)
\* AuthError::TokenNotFound and the errors identify can fail with.
TokenNotFound == [kind |-> "TokenNotFound", msg |-> ""]

AuthErrors ==
    {TokenNotFound, [kind |-> "InvalidToken", msg |-> "expired"]}

\* A HeaderValue is a sequence of bytes: a one-character string for an
\* ASCII byte, the byte's hexadecimal code for a byte outside visible ASCII.
Bytes(s) == [i \in 1..Len(s) |-> SubSeq(s, i, i)]

NotVisibleAscii == {"0xE9"}

\* Authorization header values a request may carry.
HeaderValues ==
    {Bytes("Bearer abc"), Bytes("Bearer "), Bytes("Bearer Bearer x"),
     Bytes("bearer abc"), Bytes("Basic xyz"),
     Bytes("Bearer ") \o <<"0xE9">>}

\* headers().get(AUTHORIZATION) on a request without the header.
NoHeader == [some |-> FALSE, v |-> <<>>]

RECURSIVE from_utf8_unchecked(_)
from_utf8_unchecked(bytes) ==
    IF bytes = <<>> THEN ""
    ELSE Head(bytes) \o from_utf8_unchecked(Tail(bytes))

\* HeaderValue::to_str: the text, if every byte is visible ASCII.
to_str(value) ==
    IF \E i \in 1..Len(value) : value[i] \in NotVisibleAscii
    THEN LibErr("ToStrError")
    ELSE LibOk(from_utf8_unchecked(value))

strip_prefix(s, prefix) ==
    IF starts_with(s, prefix)
    THEN Some(SubSeq(s, Len(prefix) + 1, Len(s)))
    ELSE None

extract_token_from_bearer_any_case(auth_header) ==
    LET auth_str == to_str(auth_header) IN
    IF ~auth_str.ok THEN Err(TokenNotFound)
    ELSE IF starts_with(auth_str.val, "Bearer ")
               \/ starts_with(auth_str.val, "bearer ")
         THEN Ok(SubSeq(auth_str.val, 8, Len(auth_str.val)))
         ELSE Err(TokenNotFound)

\* extract_token_from_bearer, http/mod.rs lines 32-44.
extract_token_from_bearer(auth_header) ==
    LET auth_str == to_str(auth_header) IN
    IF ~auth_str.ok THEN Err(TokenNotFound)
    ELSE IF ~starts_with(auth_str.val, "Bearer ") THEN Err(TokenNotFound)
    ELSE LET stripped == strip_prefix(auth_str.val, "Bearer ") IN
         IF ~stripped.some THEN Err(TokenNotFound) ELSE Ok(stripped.v)

StatusCode_from_hiding_failure(error) ==
    IF error = "AuthenticationFailed" THEN "500 Internal Server Error"
    ELSE "401 Unauthorized"

\* impl From<MiddlewareError> for StatusCode, http/mod.rs lines 22-30.
StatusCode_from(error) ==
    CASE error = "MissingAuthHeader" -> "401 Unauthorized"
      [] error = "InvalidAuthHeader" -> "401 Unauthorized"
      [] error = "AuthenticationFailed" -> "401 Unauthorized"

\* The identities identify can resolve a token to, and what the next handler
\* can answer.
Identities == {"alice"}

HandlerResponses == {"200 OK", "404 Not Found"}

\* auth_middleware between two requests.
NoRequestServed ==
    [pc |-> "idle", header |-> NoHeader, token |-> "", identifies |-> 0,
     runs |-> 0, extensions |-> {}, seen |-> {}, response |-> ""]

\* #[arg(.., default_value = ..)] of AuthArgs, args/auth.rs lines 3-28.
default_value ==
    [issuer |-> "http://localhost:8080/realms/beep",
     client_id |-> "client-id",
     client_secret |-> "client-secret"]

AuthArgsFields == {"issuer", "client_id", "client_secret"}

\* What a command line or an environment sets: nothing, or one field.
NoSettings == [f \in AuthArgsFields |-> None]

CommandLines == {NoSettings, [NoSettings EXCEPT !.issuer = Some("http://iam")]}

Environments == {NoSettings, [NoSettings EXCEPT !.client_id = Some("svc")]}

\* clap: the option of the command line, else the environment variable,
\* else the default_value.
AuthArgs_parse(cli, env) ==
    [f \in AuthArgsFields |->
        IF cli[f].some THEN cli[f].v
        ELSE IF env[f].some THEN env[f].v
        ELSE default_value[f]]

\* impl Default for AuthArgs, args/auth.rs lines 31-39.
AuthArgs_default ==
    [issuer |-> "http://localhost:8080/realms/beep",
     client_id |-> "client_id",
     client_secret |-> "client_secret"]

NoAuthArgs == [f \in AuthArgsFields |-> ""]

\* The result of a provider's shutdown().
ShutdownResults == {LibOk(Unit), LibErr("shutdown failed")}

after_tracer_shutdown_returning_early(r) ==
    IF r.ok THEN "tracer_done" ELSE "meter_done"

\* telemetry.rs lines 146-148: the error is printed, the closure goes on.
after_tracer_shutdown(r) == "tracer_done"

\* An OtelGuard as init returns it.
NoShutdown ==
    [pc |-> "guarding", attempts |-> <<>>, errors |-> {}, returned |-> ""]

InitService ==
    /\ psIn = ""
    /\ psOut = [has_permissions |-> FALSE, result |-> NoReturn,
                wrapped_has_permissions |-> FALSE,
                wrapped_result |-> NoReturn]
    /\ hdrIn = <<>>
    /\ hdrOut = NoReturn
    /\ argsIn = [cli |-> NoSettings, env |-> NoSettings]
    /\ argsOut = [parsed |-> NoAuthArgs, default |-> NoAuthArgs]
    /\ mw = NoRequestServed
    /\ otel = NoShutdown

InitPure ==
    /\ objIn = Server("")
    /\ objOut = [id |-> "", object_name |-> "", into |-> ObjectReference("", "")]
    /\ resIn = NoReturn
    /\ resOut = [has_permissions |-> FALSE, result |-> NoReturn]
    /\ permIn = ""
    /\ permOut = ""
    /\ icIn = [token |-> "", metadata |-> NoMetadata]
    /\ icOut = Status("None")

Init == InitRepo /\ InitPure /\ InitHist /\ InitService

LifeInit == InitNew /\ InitPure /\ InitHist /\ InitService

\* ServiceSpec starts from a repository built without a token.
ServiceInit == Init /\ token = ""

\* check_permissions(resource, permission, subject) up to the lock request.
check_permissions(t) ==
    \E in \in TypedInputs :
        LET a == check_permissions_args(in[1], in[2], in[3]) IN
        /\ ctor.pc = "connected"
        /\ pc[t] = "idle"
        /\ call' = [call EXCEPT ![t] =
                      [kind |-> "typed", resource |-> in[1],
                       permission |-> in[2], subject |-> in[3]]]
        /\ req' = [req EXCEPT ![t] = CheckPermissionRequest(a[1], a[2], a[3])]
        /\ pc' = [pc EXCEPT ![t] = "built"]
        /\ UNCHANGED <<token, policy, lock, queue, attempts, wire, resp, ret>>
        /\ UNCHANGED <<newVars, pureVars, serviceVars>>

\* check_permissions_raw(resource, permission, subject) up to the lock request.
check_permissions_raw(t) ==
    \E in \in RawInputs :
        /\ ctor.pc = "connected"
        /\ pc[t] = "idle"
        /\ call' = [call EXCEPT ![t] =
                      [kind |-> "raw", resource |-> in[1],
                       permission |-> in[2], subject |-> in[3]]]
        /\ req' = [req EXCEPT ![t] = CheckPermissionRequest(in[1], in[2], in[3])]
        /\ pc' = [pc EXCEPT ![t] = "built"]
        /\ UNCHANGED <<token, policy, lock, queue, attempts, wire, resp, ret>>
        /\ UNCHANGED <<newVars, pureVars, serviceVars>>

\* self.permissions().await is polled first: the task joins the lock's queue.
RequestLock(t) ==
    /\ pc[t] = "built"
    /\ queue' = Append(queue, t)
    /\ pc' = [pc EXCEPT ![t] = "waiting"]
    /\ UNCHANGED <<token, policy, lock, call, req, attempts, wire, resp,
                 ret>>
    /\ UNCHANGED <<newVars, pureVars, serviceVars>>

\* The lock is granted to the task at the head of the queue.
AcquireLock(t) ==
    /\ pc[t] = "waiting"
    /\ queue # <<>> /\ Head(queue) = t
    /\ Available(lock, permissions)
    /\ lock' = Locked(lock, t, permissions)
    /\ queue' = Tail(queue)
    /\ pc' = [pc EXCEPT ![t] = "locked"]
    /\ UNCHANGED <<token, policy, call, req, attempts, wire, resp, ret>>
    /\ UNCHANGED <<newVars, pureVars, serviceVars>>

\* client.check_permission(check_request): the interceptor runs, and the
\* request leaves for the backend unless the interceptor rejects it.
SendRequest(t) ==
    LET i == AuthInterceptor_call(token, NoMetadata) IN
    /\ pc[t] = "locked"
    /\ attempts' = [attempts EXCEPT ![t] = @ + 1]
    /\ lock' = guard_during_call(lock, t)
    /\ IF i.ok
       THEN /\ wire' = [wire EXCEPT ![t] =
                          [message |-> req[t], metadata |-> i.val]]
            /\ pc' = [pc EXCEPT ![t] = "inflight"]
            /\ resp' = resp
       ELSE /\ resp' = [resp EXCEPT ![t] = Status(i.code)]
            /\ pc' = [pc EXCEPT ![t] = "answered"]
            /\ wire' = wire
    /\ UNCHANGED <<token, policy, queue, call, req, ret>>
    /\ UNCHANGED <<newVars, pureVars, serviceVars>>

\* The backend answers the request with its decision at this moment.
BackendAnswers(t) ==
    /\ pc[t] = "inflight"
    /\ resp' = [resp EXCEPT ![t] = StatusOk(Decide(policy, wire[t].message))]
    /\ pc' = [pc EXCEPT ![t] = "answered"]
    /\ UNCHANGED <<token, policy, lock, queue, call, req, attempts,
                     wire, ret>>
    /\ UNCHANGED <<newVars, pureVars, serviceVars>>

\* The remote call fails: transport error or an error status.
CallFails(t) ==
    \E code \in FailureCodes :
        /\ pc[t] = "inflight"
        /\ resp' = [resp EXCEPT ![t] = Status(code)]
        /\ pc' = [pc EXCEPT ![t] = "answered"]
        /\ UNCHANGED <<token, policy, lock, queue, call, req, attempts,
                     wire, ret>>
        /\ UNCHANGED <<newVars, pureVars, serviceVars>>

\* The call's future resolves: map_err, `?`, guard dropped, value returned
\* (through .into() for check_permissions).
Return(t) ==
    LET r == check_permissions_raw_result(resp[t]) IN
    /\ call_resolved(pc[t])
    /\ lock' = guard_after_call(lock, t, resp[t])
    /\ ret' = [ret EXCEPT ![t] =
                 IF call[t].kind = "typed" THEN AuthorizationResult_from(r)
                 ELSE r]
    /\ pc' = [pc EXCEPT ![t] = after_call(resp[t])]
    /\ connects' = handle_after_call(connects, resp[t])
    /\ UNCHANGED <<token, policy, queue, call, req, attempts, wire, resp>>
    /\ UNCHANGED <<ctor, pureVars, serviceVars>>

\* The caller consumes the result; the task may call again.
Consume(t) ==
    /\ pc[t] = "done"
    /\ pc' = [pc EXCEPT ![t] = "idle"]
    /\ call' = [call EXCEPT ![t] = NoCall]
    /\ req' = [req EXCEPT ![t] = NoRequest]
    /\ attempts' = [attempts EXCEPT ![t] = 0]
    /\ wire' = [wire EXCEPT ![t] = NoWire]
    /\ resp' = [resp EXCEPT ![t] = NoResponse]
    /\ ret' = [ret EXCEPT ![t] = NoReturn]
    /\ UNCHANGED <<token, policy, lock, queue>>
    /\ UNCHANGED <<newVars, pureVars, serviceVars>>

\* Relationships change in the backend, outside the repository.
BackendWrite ==
    \E k \in BackendTuples, o \in Outcomes :
        /\ policy[k] # o
        /\ policy' = [policy EXCEPT ![k] = o]
        /\ UNCHANGED <<token, lock, queue, pc, call, req, attempts, wire, resp,
                     ret>>
        /\ UNCHANGED <<newVars, pureVars, serviceVars>>

\* new -> create_channel, lines 116-124: the URL is normalised and parsed.
ParseEndpoint ==
    LET url == endpoint_url(ctor.endpoint)
        parsed == from_shared(url)
    IN  /\ ctor.pc = "start"
        /\ ctor' = IF parsed.ok
                   THEN [ctor EXCEPT !.pc = "parsed", !.url = url]
                   ELSE [ctor EXCEPT !.pc = "failed", !.url = url,
                                     !.cause = parsed.text,
                                     !.result = Err(connection_error(parsed))]
        /\ UNCHANGED <<connects, repoVars, pureVars, serviceVars>>

\* create_channel, lines 126-127: endpoint.connect() starts a connection.
Connect ==
    /\ ctor.pc = "parsed"
    /\ ctor' = [ctor EXCEPT !.pc = "connecting"]
    /\ connects' = connects + 1
    /\ UNCHANGED <<repoVars, pureVars, serviceVars>>

\* The connection is up: new, lines 102-111, wraps the channel and the token
\* into the locked client and returns the repository.
ConnectOk ==
    /\ ctor.pc = "connecting"
    /\ token' = unwrap_or_default(ctor.token)
    /\ lock' = Unlocked
    /\ ctor' = Built(ctor.token)
    /\ UNCHANGED <<connects, policy, queue, pc, call, req, attempts, wire,
                   resp, ret>>
    /\ UNCHANGED <<pureVars, serviceVars>>

\* The connection fails: create_channel, lines 128-129, and the `?` of new.
ConnectFails ==
    \E text \in ConnectErrors :
        /\ ctor.pc = "connecting"
        /\ ctor' = [ctor EXCEPT !.pc = after_connect_error,
                                !.cause = text,
                                !.result = Err(connection_error(LibErr(text)))]
        /\ UNCHANGED <<connects, repoVars, pureVars, serviceVars>>

\* The repository is dropped once no call borrows it.
Drop ==
    /\ ctor.pc = "connected"
    /\ \A t \in Tasks : pc[t] = "idle"
    /\ ctor' = [ctor EXCEPT !.pc = "terminated"]
    /\ UNCHANGED <<connects, repoVars, pureVars, serviceVars>>

\* A step that leaves the history variable alone.
Unobserved(step) == step /\ UNCHANGED histVars

\* A step that records, for a task making a call, what the backend would
\* decide on its request at that moment.
Observed(step) ==
    /\ step
    /\ atCall' = [t \in Tasks |->
                    IF pc[t] = "idle" /\ pc'[t] = "built"
                    THEN Decide(policy, req'[t])
                    ELSE IF pc'[t] = "idle" THEN "" ELSE atCall[t]]

Next ==
    \/ \E t \in Tasks : Unobserved(check_permissions(t))
    \/ \E t \in Tasks : Unobserved(check_permissions_raw(t))
    \/ \E t \in Tasks : Unobserved(RequestLock(t))
    \/ \E t \in Tasks : Unobserved(AcquireLock(t))
    \/ \E t \in Tasks : Unobserved(SendRequest(t))
    \/ \E t \in Tasks : Unobserved(BackendAnswers(t))
    \/ \E t \in Tasks : Unobserved(CallFails(t))
    \/ \E t \in Tasks : Unobserved(Return(t))
    \/ \E t \in Tasks : Unobserved(Consume(t))
    \/ Unobserved(BackendWrite)

Spec == Init /\ [][Next]_vars

(***************************************************************************)
(* LifeSpec: the repository from new(config) on: construction, then check  *)
(* calls, then the drop.                                                   *)
(***************************************************************************)
LifeNext ==
    \/ Unobserved(ParseEndpoint)
    \/ Unobserved(Connect)
    \/ Unobserved(ConnectOk)
    \/ Unobserved(ConnectFails)
    \/ Unobserved(Drop)
    \/ Next

LifeSpec == LifeInit /\ [][LifeNext]_vars

(***************************************************************************)
(* HistSpec: Spec, each step recording the history variable atCall.        *)
(***************************************************************************)
HistNext ==
    \/ \E t \in Tasks : Observed(check_permissions(t))
    \/ \E t \in Tasks : Observed(check_permissions_raw(t))
    \/ \E t \in Tasks : Observed(RequestLock(t))
    \/ \E t \in Tasks : Observed(AcquireLock(t))
    \/ \E t \in Tasks : Observed(SendRequest(t))
    \/ \E t \in Tasks : Observed(BackendAnswers(t))
    \/ \E t \in Tasks : Observed(CallFails(t))
    \/ \E t \in Tasks : Observed(Return(t))
    \/ \E t \in Tasks : Observed(Consume(t))
    \/ Observed(BackendWrite)

HistSpec == Init /\ [][HistNext]_vars

(***************************************************************************)
(* FairSpec: the runtime polls every task that can make progress, and the  *)
(* backend (or the transport, with an error) completes every remote call.  *)
(* Nothing obliges a caller to start a call or to consume its result.      *)
(***************************************************************************)
Fairness ==
    \A t \in Tasks :
        /\ WF_vars(Unobserved(RequestLock(t)))
        /\ WF_vars(Unobserved(AcquireLock(t)))
        /\ WF_vars(Unobserved(SendRequest(t)))
        /\ WF_vars(Unobserved(BackendAnswers(t) \/ CallFails(t)))
        /\ WF_vars(Unobserved(Return(t)))

FairSpec == Spec /\ Fairness

(***************************************************************************)
(* PureSpec: the pure functions applied to every input of small sets.      *)
(***************************************************************************)
Messages == {"transport error", "invalid uri"}

Results ==
    {Ok(p) : p \in Permissionship}
        \cup {Err(Unauthorized)}
        \cup {Err(ConnectionError(m)) : m \in Messages}

ApplyObject ==
    \E o \in SpiceDbObject :
        /\ objIn' = o
        /\ objOut' = [id |-> id(o), object_name |-> object_name(o),
                      into |-> into_ObjectReference(o)]
        /\ UNCHANGED <<resIn, resOut, permIn, permOut, icIn, icOut>>
        /\ UNCHANGED <<newVars, repoVars, serviceVars>>

ApplyResult ==
    \E v \in Results :
        /\ resIn' = v
        /\ resOut' = [has_permissions |->
                          has_permissions(AuthorizationResult_from(v)),
                      result |-> result(AuthorizationResult_from(v))]
        /\ UNCHANGED <<objIn, objOut, permIn, permOut, icIn, icOut>>
        /\ UNCHANGED <<newVars, repoVars, serviceVars>>

ApplyPermission ==
    \E p \in Permissions :
        /\ permIn' = p
        /\ permOut' = to_string(p)
        /\ UNCHANGED <<objIn, objOut, resIn, resOut, icIn, icOut>>
        /\ UNCHANGED <<newVars, repoVars, serviceVars>>

\* Metadata a request may carry before the interceptor sees it.
Metadatas ==
    {NoMetadata, {<<"x-request-id", "7">>}, {<<"authorization", "Basic xyz">>}}

ApplyInterceptor ==
    \E tok \in Tokens, md \in Metadatas :
        /\ icIn' = [token |-> tok, metadata |-> md]
        /\ icOut' = AuthInterceptor_call(tok, md)
        /\ UNCHANGED <<objIn, objOut, resIn, resOut, permIn, permOut>>
        /\ UNCHANGED <<newVars, repoVars, serviceVars>>

PureNext ==
    \/ Unobserved(ApplyObject)
    \/ Unobserved(ApplyResult)
    \/ Unobserved(ApplyPermission)
    \/ Unobserved(ApplyInterceptor)

PureSpec == Init /\ [][PureNext]_vars

(***************************************************************************)
(* ServiceSpec: the bearer middleware serving requests, the telemetry      *)
(* guard shutting down, and the pure functions of the server crate and of  *)
(* Permissionship applied to inputs of small sets.                         *)
(***************************************************************************)
\* auth_middleware, lines 54-66: the Authorization header is read, the token
\* extracted, and identify called with it.
auth_middleware ==
    \E header \in {NoHeader} \cup {Some(h) : h \in HeaderValues} :
        LET token_ == IF header.some
                      THEN extract_token_from_bearer(header.v)
                      ELSE Err(TokenNotFound)
        IN  /\ mw.pc = "idle"
            /\ mw' = IF ~header.some
                     THEN [mw EXCEPT
                              !.pc = "responded", !.header = header,
                              !.response = StatusCode_from("MissingAuthHeader")]
                     ELSE IF ~token_.ok
                     THEN [mw EXCEPT
                              !.pc = "responded", !.header = header,
                              !.response = "401 Unauthorized"]
                     ELSE [mw EXCEPT
                              !.pc = "identifying", !.header = header,
                              !.token = token_.val, !.identifies = @ + 1]
            /\ UNCHANGED <<psIn, psOut, hdrIn, hdrOut, argsIn, argsOut, otel>>
            /\ UNCHANGED <<newVars, repoVars, pureVars>>

\* identify resolved the token: lines 72-79, the identity is inserted into
\* the request's extensions and the next handler is run with the request.
IdentifyOk ==
    \E identity \in Identities :
        /\ mw.pc = "identifying"
        /\ mw' = [mw EXCEPT !.pc = "next",
                            !.extensions = @ \cup {identity},
                            !.seen = mw.extensions \cup {identity},
                            !.runs = @ + 1]
        /\ UNCHANGED <<psIn, psOut, hdrIn, hdrOut, argsIn, argsOut, otel>>
        /\ UNCHANGED <<newVars, repoVars, pureVars>>

\* identify failed: lines 67-70, AuthenticationFailed(e) becomes the status.
IdentifyFails ==
    \E e \in AuthErrors :
        /\ mw.pc = "identifying"
        /\ mw' = [mw EXCEPT
                     !.pc = "responded",
                     !.response = StatusCode_from("AuthenticationFailed")]
        /\ UNCHANGED <<psIn, psOut, hdrIn, hdrOut, argsIn, argsOut, otel>>
        /\ UNCHANGED <<newVars, repoVars, pureVars>>

\* The next handler answers: line 79, Ok(next.run(req).await).
NextReturns ==
    \E r \in HandlerResponses :
        /\ mw.pc = "next"
        /\ mw' = [mw EXCEPT !.pc = "responded", !.response = r]
        /\ UNCHANGED <<psIn, psOut, hdrIn, hdrOut, argsIn, argsOut, otel>>
        /\ UNCHANGED <<newVars, repoVars, pureVars>>

\* The response is sent; the middleware serves the next request.
NextRequest ==
    /\ mw.pc = "responded"
    /\ mw' = NoRequestServed
    /\ UNCHANGED <<psIn, psOut, hdrIn, hdrOut, argsIn, argsOut, otel>>
    /\ UNCHANGED <<newVars, repoVars, pureVars>>

\* OtelGuard::shutdown, lines 141-145: the closure is handed to
\* spawn_blocking and awaited.
shutdown ==
    /\ otel.pc = "guarding"
    /\ otel' = [otel EXCEPT !.pc = "spawned"]
    /\ UNCHANGED <<psIn, psOut, hdrIn, hdrOut, argsIn, argsOut, mw>>
    /\ UNCHANGED <<newVars, repoVars, pureVars>>

\* Lines 146-148: tracer_provider.shutdown().
TracerShutdown ==
    \E r \in ShutdownResults :
        /\ otel.pc = "spawned"
        /\ otel' = [otel EXCEPT
                       !.pc = after_tracer_shutdown(r),
                       !.attempts = Append(@, "tracer"),
                       !.errors = IF r.ok THEN @ ELSE @ \cup {"tracer"}]
        /\ UNCHANGED <<psIn, psOut, hdrIn, hdrOut, argsIn, argsOut, mw>>
        /\ UNCHANGED <<newVars, repoVars, pureVars>>

\* Lines 149-151: meter_provider.shutdown().
MeterShutdown ==
    \E r \in ShutdownResults :
        /\ otel.pc = "tracer_done"
        /\ otel' = [otel EXCEPT
                       !.pc = "meter_done",
                       !.attempts = Append(@, "meter"),
                       !.errors = IF r.ok THEN @ ELSE @ \cup {"meter"}]
        /\ UNCHANGED <<psIn, psOut, hdrIn, hdrOut, argsIn, argsOut, mw>>
        /\ UNCHANGED <<newVars, repoVars, pureVars>>

\* Lines 145 and 153: the join handle resolves, its result is discarded, and
\* shutdown returns ().
ShutdownReturns ==
    /\ otel.pc = "meter_done"
    /\ otel' = [otel EXCEPT !.pc = "returned", !.returned = Unit]
    /\ UNCHANGED <<psIn, psOut, hdrIn, hdrOut, argsIn, argsOut, mw>>
    /\ UNCHANGED <<newVars, repoVars, pureVars>>

ApplyPermissionship ==
    \E p \in Permissionship :
        /\ psIn' = p
        /\ psOut' =
               [has_permissions |-> Permissionship_has_permissions(p),
                result |-> Permissionship_result(p),
                wrapped_has_permissions |->
                    has_permissions(AuthorizationResult_from(Ok(p))),
                wrapped_result |-> result(AuthorizationResult_from(Ok(p)))]
        /\ UNCHANGED <<hdrIn, hdrOut, argsIn, argsOut, mw, otel>>
        /\ UNCHANGED <<newVars, repoVars, pureVars>>

ApplyBearer ==
    \E h \in HeaderValues :
        /\ hdrIn' = h
        /\ hdrOut' = extract_token_from_bearer(h)
        /\ UNCHANGED <<psIn, psOut, argsIn, argsOut, mw, otel>>
        /\ UNCHANGED <<newVars, repoVars, pureVars>>

ApplyAuthArgs ==
    \E cli \in CommandLines, env \in Environments :
        /\ argsIn' = [cli |-> cli, env |-> env]
        /\ argsOut' = [parsed |-> AuthArgs_parse(cli, env),
                       default |-> AuthArgs_default]
        /\ UNCHANGED <<psIn, psOut, hdrIn, hdrOut, mw, otel>>
        /\ UNCHANGED <<newVars, repoVars, pureVars>>

ServiceNext ==
    \/ Unobserved(auth_middleware)
    \/ Unobserved(IdentifyOk)
    \/ Unobserved(IdentifyFails)
    \/ Unobserved(NextReturns)
    \/ Unobserved(NextRequest)
    \/ Unobserved(shutdown)
    \/ Unobserved(TracerShutdown)
    \/ Unobserved(MeterShutdown)
    \/ Unobserved(ShutdownReturns)
    \/ Unobserved(ApplyPermissionship)
    \/ Unobserved(ApplyBearer)
    \/ Unobserved(ApplyAuthArgs)

ServiceSpec == ServiceInit /\ [][ServiceNext]_vars

(***************************************************************************)
(* Properties.                                                             *)
(***************************************************************************)
\* The Result a finished call returned, without the AuthorizationResult
\* wrapper of the typed check.
Returned(t) == IF call[t].kind = "typed" THEN ret[t].inner ELSE ret[t]

\* The AuthorizationResult view of a finished call.
Wrapped(t) == AuthorizationResult_from(Returned(t))

InCall == {t \in Tasks : pc[t] \in {"locked", "inflight", "answered"}}

Namespace(tag) ==
    CASE tag = "Server" -> "server"
      [] tag = "Channel" -> "channel"
      [] tag = "User" -> "user"
      [] tag = "PermissionOverride" -> "permission_override"

\* C1: for every variant V(id), the conversion into the wire ObjectReference
\* gives object_type = the variant's fixed namespace name and object_id = id;
\* the caller's identifier never ends up in the type field.
C1_WireEncoding ==
    objIn \in SpiceDbObject =>
        /\ objOut.into.object_type = Namespace(objIn.tag)
        /\ objOut.into.object_id = objIn.id

IsViewC1Check(t) ==
    /\ token = ""
    /\ call[t] = [kind |-> "typed", resource |-> Channel("c1"),
                  permission |-> "ViewChannels", subject |-> User("u1")]

\* C2: with no token, whenever the backend answers the remote call of
\* check_permissions(Channel("c1"), ViewChannels, User("u1")), the call
\* yields has_permissions() = true and result() = Ok exactly when the backend
\* grants view_channel on channel c1 to user u1 at that moment, and
\* has_permissions() = false and result() = Err(Unauthorized) when it denies.
C2_EndToEnd ==
    [][\A t \in Tasks :
         (IsViewC1Check(t) /\ pc[t] = "inflight" /\ pc'[t] = "answered"
              /\ resp'[t].ok)
         => LET r == AuthorizationResult_from(
                         check_permissions_raw_result(resp'[t]))
            IN  /\ policy[ViewC1] = "HasPermission"
                     => has_permissions(r) /\ result(r) = Ok(Unit)
                /\ policy[ViewC1] = "NoPermission"
                     => ~has_permissions(r) /\ result(r) = Err(Unauthorized)
                /\ has_permissions(r) => policy[ViewC1] = "HasPermission"]_vars

\* C3: has_permissions() is true if and only if the wrapped value is
\* Ok(HasPermission); it is false for every other outcome and every error.
C3_HasPermissionsIffGranted ==
    resIn \in Results =>
        (resOut.has_permissions <=> resIn = Ok("HasPermission"))

C3_Witness ==
    /\ resIn = Err(ConnectionError("transport error"))
    /\ resOut.has_permissions = FALSE

\* C4: result() is Ok(()) if and only if has_permissions() is true; in
\* every other state it is exactly Err(Unauthorized), never ConnectionError.
C4_ResultNormalised ==
    resIn \in Results =>
        /\ resOut.result = Ok(Unit) <=> resOut.has_permissions
        /\ ~resOut.has_permissions => resOut.result = Err(Unauthorized)
        /\ resOut.result.err # "ConnectionError"

C4_Witness ==
    /\ resIn = Err(ConnectionError("invalid uri"))
    /\ resOut.result = Err(Unauthorized)

\* C5: whenever the remote call of a check failed (transport error, error
\* status, interceptor rejection), the check returns Err(Unauthorized); no
\* check returns ConnectionError, and has_permissions() on the wrapped result
\* is false.
C5_FailuresAreUnauthorized ==
    \A t \in Tasks :
        pc[t] = "done" =>
            /\ Returned(t).err # "ConnectionError"
            /\ ~resp[t].ok =>
                   /\ Returned(t) = Err(Unauthorized)
                   /\ ~has_permissions(Wrapped(t))

C5_Witness ==
    \E t, u \in Tasks :
        /\ pc[t] = "done" /\ resp[t].code = "Unavailable"
        /\ Returned(t) = Err(Unauthorized)
        /\ pc[u] = "done" /\ resp[u].code = "FailedPrecondition"

C7_TypedIsRaw ==
    \A t \in Tasks :
        call[t].kind = "typed" =>
            /\ req[t] = CheckPermissionRequest(
                            AsReference(into_ObjectReference(call[t].resource)),
                            to_string(call[t].permission),
                            AsReference(into_ObjectReference(call[t].subject)))
            /\ pc[t] = "inflight" => wire[t].message = req[t]
            /\ pc[t] = "done" =>
                   /\ ret[t] = AuthorizationResult_from(
                                   check_permissions_raw_result(resp[t]))
                   /\ ~ret[t].inner.ok => ~resp[t].ok

C7_Witness ==
    \E t \in Tasks :
        /\ call[t].kind = "typed" /\ pc[t] = "done"
        /\ resp[t].ok /\ ret[t].inner.ok

\* C8: at most one check call of the repository holds the client handle and
\* has its remote call under way; the handle is only taken in write mode.
C8_OneCallAtATime ==
    /\ Cardinality(InCall) <= 1
    /\ Cardinality({t \in Tasks : Holds(lock, t)}) <= 1
    /\ lock.readers = {}

C8_Witness ==
    \E t, u \in Tasks :
        /\ pc[t] = "inflight" /\ lock.writer = t
        /\ pc[u] = "waiting" /\ Head(queue) = u

\* C9 as stated: from request construction through response receipt the
\* caller holds the write lock.
C9_LockedFromConstruction ==
    \A t \in Tasks :
        pc[t] \in {"built", "waiting", "locked", "inflight", "answered"}
            => lock.writer = t

\* C9, amended: the caller holds the write lock from its acquisition, right
\* before the remote call is issued, through response receipt; the request
\* is built before the lock is requested, while the caller does not hold it.
C9_LockedFromAcquisition ==
    \A t \in Tasks :
        /\ pc[t] \in {"locked", "inflight", "answered"} => lock.writer = t
        /\ pc[t] \in {"built", "waiting"} =>
               /\ req[t] # NoRequest
               /\ ~Holds(lock, t)

C9_Witness ==
    \E t, u \in Tasks :
        /\ pc[t] = "answered" /\ lock.writer = t
        /\ pc[u] = "built" /\ req[u] # NoRequest

\* C10: a check call releases the handle once its remote call completed, on
\* success and on failure alike; so, every remote call completing, every
\* caller waiting for the handle acquires it and every check call returns.
C10_ReleaseAndProgress ==
    /\ [](\A t \in Tasks : pc[t] \in {"done", "idle"} => ~Holds(lock, t))
    /\ \A t \in Tasks : (pc[t] = "waiting") ~> (pc[t] = "locked")
    /\ \A t \in Tasks : (pc[t] = "built") ~> (pc[t] = "done")

C10_Witness ==
    \E t, u \in Tasks :
        /\ pc[t] = "done" /\ ~resp[t].ok /\ ~Holds(lock, t)
        /\ pc[u] = "locked" /\ lock.writer = u

\* C11: no timeout, no cancellation.  While the remote call of the lock
\* holder has not completed, the holder stays in its call and keeps the
\* handle, and no other call of the repository acquires the handle or
\* returns; the holder leaves its call only with the call's own result.
C11_NoTimeout ==
    [][\A t \in Tasks :
          pc[t] = "inflight" =>
              /\ pc'[t] \in {"inflight", "answered"}
              /\ pc'[t] = "answered" => resp'[t] # NoResponse
              /\ pc'[t] = "inflight" =>
                     /\ Holds(lock', t)
                     /\ \A u \in Tasks \ {t} :
                            /\ ~Holds(lock', u)
                            /\ pc[u] \in {"built", "waiting"}
                                   => pc'[u] \in {"built", "waiting"}]_vars

C11_Witness ==
    \E t \in Tasks :
        /\ pc[t] = "inflight"
        /\ \A u \in Tasks \ {t} : pc[u] = "waiting"
        /\ Len(queue) = NumTasks - 1

\* C12: every check call issues exactly one remote call: none before it
\* holds the handle, one from then on, never a second one; a failed remote
\* call is returned as Unauthorized after that single attempt.
C12_ExactlyOneCall ==
    \A t \in Tasks :
        /\ pc[t] \in {"idle", "built", "waiting", "locked"} => attempts[t] = 0
        /\ pc[t] \in {"inflight", "answered", "done"} => attempts[t] = 1
        /\ pc[t] = "done" /\ ~resp[t].ok => Returned(t) = Err(Unauthorized)

C12_Witness ==
    \E t \in Tasks :
        /\ pc[t] = "done" /\ resp[t] = Status("Unavailable")
        /\ attempts[t] = 1
        /\ Returned(t) = Err(Unauthorized)

\* C13: the outcome of a check call is what the backend decides, on the
\* call's request alone, at the step it answers the remote call, which is
\* while the call holds the handle; it is returned as answered; the request
\* carries no consistency token.  (The witness: a call that returns an
\* outcome other than the backend's decision at the moment it was made.)
C13_AnswerAtItsTurn ==
    /\ [][\A t \in Tasks :
             pc[t] = "inflight" /\ pc'[t] = "answered" /\ resp'[t].ok =>
                 /\ lock.writer = t
                 /\ resp'[t].val =
                        IF Asked(req[t]) \in DOMAIN policy
                        THEN policy[Asked(req[t])]
                        ELSE "NoPermission"]_vars
    /\ [](\A t \in Tasks :
             /\ req[t].consistency = "None"
             /\ pc[t] = "done" /\ resp[t].ok => Returned(t) = Ok(resp[t].val))

C13_Witness ==
    \E t \in Tasks :
        /\ pc[t] = "done" /\ call[t].kind = "raw"
        /\ atCall[t] = "NoPermission"
        /\ ret[t] = Ok("HasPermission")

\* The construction has computed the URL of the channel.
Normalised == ctor.pc \in {"parsed", "connecting", "failed"}

\* The places of a "://" that follows a non-empty scheme name.
SchemeMarks(s) == {i \in 2..(Len(s) - 2) : SubSeq(s, i, i + 2) = "://"}

\* C14: new connects to "http://" + endpoint when the endpoint starts with
\* neither "http://" nor "https://" ("localhost:50051" becomes
\* "http://localhost:50051"), and to the endpoint itself otherwise
\* ("https://x:443" stays); normalising the result again changes nothing.
C14_Normalisation ==
    Normalised =>
        /\ IF starts_with(ctor.endpoint, "http://")
              \/ starts_with(ctor.endpoint, "https://")
           THEN ctor.url = ctor.endpoint
           ELSE ctor.url = "http://" \o ctor.endpoint
        /\ ctor.endpoint = "localhost:50051"
               => ctor.url = "http://localhost:50051"
        /\ ctor.endpoint = "https://x:443" => ctor.url = "https://x:443"
        /\ endpoint_url(ctor.url) = ctor.url

C14_Witness ==
    /\ ctor.pc = "connecting" /\ connects = 1
    /\ ctor.endpoint = "localhost:50051"
    /\ ctor.url = "http://localhost:50051"

\* C15 as stated: an endpoint that carries a scheme prefix "<scheme>://",
\* whatever the scheme and its letter case, is left unchanged, and the
\* normalised URL carries exactly one scheme prefix.
C15_SchemeKept ==
    Normalised =>
        /\ SchemeMarks(ctor.endpoint) # {} => ctor.url = ctor.endpoint
        /\ Cardinality(SchemeMarks(ctor.url)) = 1

\* The interceptor probe has been applied.
Intercepted == icOut # Status("None")

Authorization(metadata) == {e \in metadata : e[1] = "authorization"}

\* C16 as stated: with an empty token the request is passed on unchanged,
\* no authorization header added; with any non-empty token t the request is
\* passed on with the authorization header "Bearer " + t.
C16_BearerForEveryToken ==
    Intercepted =>
        IF icIn.token = ""
        THEN icOut = StatusOk(icIn.metadata)
        ELSE /\ icOut.ok
             /\ Authorization(icOut.val) =
                    {<<"authorization", "Bearer " \o icIn.token>>}
             /\ icOut.val \ Authorization(icOut.val) =
                    icIn.metadata \ Authorization(icIn.metadata)

\* C16, amended: the same for every non-empty token that a header value can
\* carry; with any other non-empty token no request is passed on.
C16_BearerForEncodableToken ==
    Intercepted =>
        IF icIn.token = ""
        THEN icOut = StatusOk(icIn.metadata)
        ELSE IF \A i \in 1..Len(icIn.token) :
                    SubSeq(icIn.token, i, i) \notin ControlChars
             THEN /\ icOut.ok
                  /\ Authorization(icOut.val) =
                         {<<"authorization", "Bearer " \o icIn.token>>}
                  /\ icOut.val \ Authorization(icOut.val) =
                         icIn.metadata \ Authorization(icIn.metadata)
             ELSE ~icOut.ok

C16_Witness ==
    /\ icIn = [token |-> "abc",
               metadata |-> {<<"authorization", "Basic xyz">>}]
    /\ icOut = StatusOk({<<"authorization", "Bearer abc">>})

\* C17: the token of the repository is the configured one (the empty token
\* for None) and no step of a built repository changes it; every request
\* that leaves for the backend carries "Bearer " + t when built with
\* Some(t), t non-empty, and no authorization header when built with None or
\* Some("").
C17_CredentialFixed ==
    /\ [](ctor.pc \in {"connected", "terminated"} =>
              token = IF ctor.token.some THEN ctor.token.v ELSE "")
    /\ [](\A t \in Tasks :
              wire[t] # NoWire =>
                  wire[t].metadata =
                      IF ctor.token.some /\ ctor.token.v # ""
                      THEN {<<"authorization", "Bearer " \o ctor.token.v>>}
                      ELSE {})
    /\ [][ctor.pc = "connected" =>
              token' = token /\ ctor'.token = ctor.token]_vars

C17_Witness ==
    \E t, u \in Tasks :
        /\ ctor.token = Some("abc")
        /\ pc[t] = "done" /\ pc[u] = "inflight"
        /\ wire[t].metadata = {<<"authorization", "Bearer abc">>}
        /\ wire[u].metadata = {<<"authorization", "Bearer abc">>}

\* C18: new makes at most one connection attempt; when parsing or
\* connecting fails it ends, for good, with Err(ConnectionError { msg }),
\* msg the text of the underlying error, and no repository exists: no check
\* call is ever made; no check call returns ConnectionError.
C18_OneConnectionAttempt ==
    /\ [](connects <= 1)
    /\ [](ctor.pc = "failed" =>
              /\ ~ctor.result.ok
              /\ ctor.result.err = "ConnectionError"
              /\ ctor.result.msg = ctor.cause
              /\ ctor.cause \in {"invalid uri character", "transport error"}
              /\ \A t \in Tasks : pc[t] = "idle")
    /\ [](\A t \in Tasks :
              pc[t] = "done" => Returned(t).err # "ConnectionError")
    /\ [][ctor.pc = "failed" => ctor' = ctor /\ connects' = connects]_vars

C18_Witness ==
    /\ ctor.pc = "failed" /\ connects = 1
    /\ ctor.result = Err(ConnectionError("transport error"))

\* C19: when the normalised endpoint carries a character no URI can carry,
\* new ends with ConnectionError and no connection attempt has been made.
C19_InvalidEndpointNoConnect ==
    (ctor.pc # "start"
         /\ \E i \in 1..Len(ctor.url) : SubSeq(ctor.url, i, i) = " ")
    => /\ ctor.pc = "failed"
       /\ connects = 0
       /\ ctor.result.err = "ConnectionError"

C19_Witness ==
    /\ ctor.pc = "failed" /\ connects = 0
    /\ ctor.endpoint = "bad host:1" /\ ctor.url = "http://bad host:1"
    /\ ctor.result = Err(ConnectionError("invalid uri character"))

\* C20: a built client is connected until it is dropped, and terminated
\* from then on; every step of a check call, failed or not, leaves the
\* channel, the token and the connected state as they are; a call only runs
\* on a connected client, and an idle task of a connected client can always
\* make a call, also after a failed one.
C20_CallsLeaveClientAlone ==
    /\ [][ctor.pc = "connected" =>
              ctor'.pc \in {"connected", "terminated"}]_vars
    /\ [][ctor.pc = "terminated" => ctor' = ctor /\ pc' = pc]_vars
    /\ [][pc' # pc =>
              ctor' = ctor /\ token' = token /\ connects' = connects]_vars
    /\ [](\A t \in Tasks : pc[t] # "idle" => ctor.pc = "connected")
    /\ [](\A t \in Tasks :
              /\ pc[t] = "done" /\ ~resp[t].ok
                     => ENABLED Unobserved(Consume(t))
              /\ pc[t] = "idle" /\ ctor.pc = "connected"
                     => /\ ENABLED Unobserved(check_permissions(t))
                        /\ ENABLED Unobserved(check_permissions_raw(t)))

C20_Witness ==
    \E t, u \in Tasks :
        /\ ctor.pc = "connected" /\ connects = 1
        /\ pc[t] = "done" /\ ~resp[t].ok /\ Returned(t) = Err(Unauthorized)
        /\ pc[u] = "inflight" /\ lock.writer = u

\* C21: for each of the four variants and every identifier, object_name()
\* is the variant's namespace ("server", "channel", "user",
\* "permission_override") whatever the identifier, and id() is the
\* identifier, unchanged.
C21_NameAndIdRoundTrip ==
    objIn \in SpiceDbObject =>
        /\ objOut.id = objIn.id
        /\ objIn.tag = "Server" => objOut.object_name = "server"
        /\ objIn.tag = "Channel" => objOut.object_name = "channel"
        /\ objIn.tag = "User" => objOut.object_name = "user"
        /\ objIn.tag = "PermissionOverride"
               => objOut.object_name = "permission_override"

C21_Witness ==
    /\ objIn = PermissionOverride("c1")
    /\ objOut.object_name = "permission_override"
    /\ objOut.id = "c1"

\* The characters of a lowercase snake_case name.
SnakeChars ==
    {"a", "b", "c", "d", "e", "f", "g", "h", "i", "j", "k", "l", "m", "n",
     "o", "p", "q", "r", "s", "t", "u", "v", "w", "x", "y", "z", "_"}

\* The documented wire string of each permission.
WireString ==
    [Administrator |-> "admin", ManageServer |-> "manage",
     ManageRoles |-> "manage_role", CreateInvitation |-> "create_invitation",
     ManageChannels |-> "manage_channels",
     ManageWebhooks |-> "manage_webhooks", ViewChannels |-> "view_channel",
     SendMessages |-> "send_message", ManageNicknames |-> "manage_nicknames",
     ChangeNickname |-> "change_nickname",
     ManageMessages |-> "manage_message", AttachFiles |-> "attach_files"]

\* C22: the catalog has twelve variants; each is displayed as its one
\* documented wire string, a lowercase snake_case name, and no two variants
\* are displayed alike.
C22_CatalogInjective ==
    /\ Cardinality(Permissions) = 12 /\ DOMAIN WireString = Permissions
    /\ permIn \in Permissions =>
           /\ permOut = WireString[permIn]
           /\ permOut # ""
           /\ \A i \in 1..Len(permOut) : SubSeq(permOut, i, i) \in SnakeChars
           /\ \A q \in Permissions \ {permIn} : to_string(q) # permOut

C22_Witness ==
    /\ permIn = "ManageRoles" /\ permOut = "manage_role"
    /\ to_string("ManageServer") = "manage"

\* C23: on a raw outcome, has_permissions() is true for HasPermission only,
\* and result() is Ok(()) exactly then and Err(Unauthorized) for every other
\* outcome; AuthorizationResult(Ok(p)) gives the same two answers as p.
C23_RawViews ==
    psIn \in Permissionship =>
        /\ psOut.has_permissions = (psIn = "HasPermission")
        /\ psOut.result =
               IF psOut.has_permissions
               THEN [ok |-> TRUE, val |-> "()", err |-> "", msg |-> ""]
               ELSE [ok |-> FALSE, val |-> "", err |-> "Unauthorized",
                     msg |-> ""]
        /\ psOut.wrapped_has_permissions = psOut.has_permissions
        /\ psOut.wrapped_result = psOut.result

C23_Witness ==
    /\ psIn = "ConditionalPermission"
    /\ ~psOut.has_permissions /\ ~psOut.wrapped_has_permissions
    /\ psOut.result = Err(Unauthorized)

\* The token is non-empty and no header value can carry it.
Unencodable(o) ==
    /\ o.some /\ o.v # ""
    /\ \E i \in 1..Len(o.v) : SubSeq(o.v, i, i) \in {"\n", "\r"}

\* C24: when the configured token cannot be encoded as a header value,
\* construction is not hindered by it, and on the built repository no
\* request ever leaves for the backend: every call ends with the
\* interceptor's internal status and returns Unauthorized, has_permissions()
\* false.
C24_UnencodableToken ==
    [](Unencodable(ctor.token) =>
           /\ ctor.pc = "connecting" => ENABLED Unobserved(ConnectOk)
           /\ ctor.pc = "failed" => ctor.cause # ""
           /\ \A t \in Tasks :
                  /\ wire[t] = NoWire /\ pc[t] # "inflight"
                  /\ pc[t] \in {"answered", "done"}
                         => resp[t] = Status("Internal")
                  /\ pc[t] = "done"
                         => /\ Returned(t) = Err(Unauthorized)
                            /\ ~has_permissions(Wrapped(t)))

C24_Witness ==
    \E t \in Tasks :
        /\ ctor.pc = "connected" /\ ctor.token = Some("a\nb")
        /\ pc[t] = "done" /\ attempts[t] = 1
        /\ resp[t] = Status("Internal")
        /\ Returned(t) = Err(Unauthorized)

\* The header value is ASCII text that starts with "Bearer ".
IsBearer(h) ==
    /\ \A i \in 1..Len(h) : Len(h[i]) = 1
    /\ Len(h) >= 7 /\ SubSeq(h, 1, 7) = <<"B", "e", "a", "r", "e", "r", " ">>

\* C25: the next handler runs, once, only after the Authorization header
\* was present, a bearer token was extracted from it and identify, called
\* once with that token, succeeded; the handler sees the identity in the
\* request's extensions.  When the header is missing or is no bearer header
\* identify is not called; then, and when identify fails, the next handler
\* is not run and the response is 401 Unauthorized.
C25_MiddlewareOrder ==
    /\ [](mw.runs <= 1 /\ mw.identifies <= 1)
    /\ [](mw.runs = 1 =>
              /\ mw.header.some /\ IsBearer(mw.header.v)
              /\ Bytes("Bearer " \o mw.token) = mw.header.v
              /\ mw.identifies = 1
              /\ mw.seen \cap Identities # {})
    /\ [](mw.pc # "idle" /\ ~(mw.header.some /\ IsBearer(mw.header.v)) =>
              /\ mw.pc = "responded"
              /\ mw.identifies = 0 /\ mw.runs = 0)
    /\ [](mw.pc = "responded" /\ mw.runs = 0 =>
              mw.response = "401 Unauthorized")
    /\ [][mw.pc = "identifying" /\ mw'.pc = "responded" =>
              mw'.runs = 0 /\ mw'.response = "401 Unauthorized"]_vars

C25_Witness ==
    /\ mw.pc = "next" /\ mw.header = Some(Bytes("Bearer abc"))
    /\ mw.token = "abc" /\ mw.identifies = 1 /\ mw.runs = 1
    /\ mw.seen = {"alice"}

\* C26: extract_token_from_bearer returns Ok(token) exactly for a header
\* value that is visible-ASCII text starting with "Bearer " (case
\* sensitive); the token is the text after that prefix, removed once, and
\* may be empty; every other value gives Err(TokenNotFound).
C26_BearerExtraction ==
    hdrIn \in HeaderValues =>
        /\ hdrOut.ok <=> IsBearer(hdrIn)
        /\ hdrOut.ok => Bytes("Bearer " \o hdrOut.val) = hdrIn
        /\ ~hdrOut.ok =>
               hdrOut = [ok |-> FALSE, val |-> "", err |-> "TokenNotFound",
                         msg |-> ""]

C26_Witness ==
    /\ hdrIn = Bytes("Bearer Bearer x")
    /\ hdrOut = Ok("Bearer x")

\* C27: shutdown attempts the tracer provider's shutdown first and the
\* meter provider's second, the second also after the first returned an
\* error; it returns () and only after both attempts.
C27_ShutdownOrder ==
    /\ otel.attempts \in {<<>>, <<"tracer">>, <<"tracer", "meter">>}
    /\ otel.pc \in {"meter_done", "returned"}
           => otel.attempts = <<"tracer", "meter">>
    /\ otel.pc = "tracer_done" => otel.attempts = <<"tracer">>
    /\ otel.pc = "returned" <=> otel.returned = "()"

C27_Witness ==
    /\ otel.pc = "returned"
    /\ otel.errors = {"tracer"}
    /\ otel.attempts = <<"tracer", "meter">>

\* C28 as stated: AuthArgs::default() equals, field by field, AuthArgs
\* parsed from an empty command line with no environment variable set.
C28_DefaultIsParsedDefault ==
    (argsOut.default # NoAuthArgs
         /\ argsIn = [cli |-> NoSettings, env |-> NoSettings])
    => \A f \in AuthArgsFields : argsOut.default[f] = argsOut.parsed[f]

=============================================================================
